---- MODULE Spec2Model ----
(***************************************************************************)
(* Model of the two MQTT clients of scripts/publisher.py and               *)
(* scripts/subscriber.py: main() of each role as a sequential program      *)
(* (one action per statement that calls the MQTT client), the callbacks    *)
(* the client library delivers, and the subscriber's on_message handler    *)
(* as a function of the inbound payload.                                   *)
(*                                                                         *)
(* The MQTT client library and the operating system are the environment:   *)
(* every library call the code wraps in try/except may return or raise,    *)
(* callbacks arrive in any order while the network loop runs, and the      *)
(* user interrupt (KeyboardInterrupt) may arrive at any statement of the   *)
(* running phase.                                                          *)
(***************************************************************************)
EXTENDS Integers, Sequences, FiniteSets, TLC

(* ---------------- bounds of the model ---------------- *)
\* producer cycles explored in one run
MaxCycles == 3
\* options on the command line
MaxArgs == 2
\* callbacks the library delivers in one run
MaxEvents == 3

(* ---------------- program constants ---------------- *)
DEFAULT_BROKER == "localhost"
DEFAULT_PORT == 8883
DEFAULT_TOPIC == "kobayashi/signals/test"
DEFAULT_INTERVAL == 10
\* qos=1 of client.publish / client.subscribe
QOS == 1
\* random.randint(0, 100)
ValueMin == 0
ValueMax == 100
StatusChoices == {"green", "yellow", "red"}

Roles == {"publisher", "subscriber"}
\* values of --topic explored: the default and the one the tests pass
Topics == {DEFAULT_TOPIC, "test/topic"}
\* what a path given to --ca-cert / --cert / --key resolves to
FileStates == {"readable", "unreadable", "missing", "directory"}
\* the order of [ca_cert, client_cert, client_key] in check_cert_files
CertOrder == <<"ca_cert", "client_cert", "client_key">>
CertArgs == {CertOrder[i] : i \in 1..3}
\* reason codes a callback is handed: 0 is success
ReasonCodes == {0, 5}
\* result[0] of client.publish: 0 is MQTT_ERR_SUCCESS, 4 is MQTT_ERR_NO_CONN
PublishStatuses == {0, 4}

VARIABLES
    role,           \* which script runs
    files,          \* the file system: state of each certificate path
    topic,          \* args.topic
    argv,           \* sys.argv[1:] as (flag, value) pairs
    args,           \* the namespace parse_arguments returned
    pc,             \* position of main()
    exitCode,       \* value main() returned; -1 while running
    calls,          \* the calls made on the MQTT client, in order
    logged,         \* log lines emitted by main() and the connection callbacks
    message_count,  \* publisher: the counter of main()
    message,        \* publisher: the message built in this cycle
    lastStatus,     \* publisher: result[0] of the latest publish
    sleeps,         \* publisher: completed time.sleep calls
    ioRunning,      \* publisher: the background network thread runs
    interruptAt,    \* pc at which KeyboardInterrupt arrived, "none" before
    loopError,      \* an exception reached the except clause of the main loop
    shutdownError,  \* the shutdown step that raised, "none" otherwise
    connState,      \* state of the session as the broker reported it
    evCount,        \* callbacks delivered so far
    lastEvent,      \* the latest callback delivered and its reason code
    inbound,        \* subscriber: the payload of the latest inbound message
    msgLog,         \* subscriber: log lines of the latest on_message call
    msgCount        \* subscriber: on_message calls that returned

vars == <<role, files, topic, argv, args, pc, exitCode, calls, logged, message_count, message,
          lastStatus, sleeps, ioRunning, interruptAt, loopError, shutdownError,
          connState, evCount, lastEvent, inbound, msgLog, msgCount>>

(* ---------------- records ---------------- *)
Call(op, t, id, q) == [op |-> op, topic |-> t, id |-> id, qos |-> q]
PlainCall(op) == Call(op, "", 0, 0)
Line(level, msg, arg) == [level |-> level, msg |-> msg, arg |-> arg]
Event(name, rc) == [name |-> name, rc |-> rc]

\* JSON values: integers and strings
JInt(n) == [t |-> "int", n |-> n, s |-> ""]
JStr(s) == [t |-> "str", n |-> 0, s |-> s]


(* ---------------- credential check ---------------- *)
\* os.path.isfile(path) and os.access(path, os.R_OK)
IsFile(st) == st \in {"readable", "unreadable"}
IsReadable(st) == st = "readable"

\* check_cert_files: the loop over [ca_cert, client_cert, client_key] from
\* position i on; the first path that fails decides
RECURSIVE CheckFrom(_, _)
CheckFrom(f, i) ==
    IF i > Len(CertOrder) THEN [ok |-> TRUE, log |-> {}]
    ELSE IF ~IsFile(f[CertOrder[i]])
         THEN [ok |-> FALSE,
               log |-> {Line("error", "Certificate file not found", CertOrder[i])}]
    ELSE IF ~IsReadable(f[CertOrder[i]])
         THEN [ok |-> FALSE,
               log |-> {Line("error", "Certificate file not readable", CertOrder[i])}]
    ELSE CheckFrom(f, i + 1)

\* mutant: the os.access test is left out
RECURSIVE CheckFromNoAccess(_, _)
CheckFromNoAccess(f, i) ==
    IF i > Len(CertOrder) THEN [ok |-> TRUE, log |-> {}]
    ELSE IF ~IsFile(f[CertOrder[i]])
         THEN [ok |-> FALSE,
               log |-> {Line("error", "Certificate file not found", CertOrder[i])}]
    ELSE CheckFromNoAccess(f, i + 1)

check_cert_files_NoAccess(f) == CheckFromNoAccess(f, 1)

check_cert_files(f) == CheckFrom(f, 1)

(* ---------------- the producer's message ---------------- *)
\* the unbound `message` before the first cycle
NoMessage == [message_id |-> 0, timestamp |-> "", value |-> 0, status |-> ""]

\* create_sample_message: ts is time.strftime, v is random.randint,
\* s is random.choice
create_sample_message(count, ts, v, s) ==
    [message_id |-> count, timestamp |-> ts, value |-> v, status |-> s]

\* mutant: the status member is not written
json_dumps_NoStatus(m) ==
    [kind |-> "object",
     pairs |-> << <<"message_id", JInt(m.message_id)>>,
                  <<"timestamp", JStr(m.timestamp)>>,
                  <<"value", JInt(m.value)>> >>,
     val |-> JInt(0)]

\* json.dumps of the dict, keys in insertion order
json_dumps(m) ==
    [kind |-> "object",
     pairs |-> << <<"message_id", JInt(m.message_id)>>,
                  <<"timestamp", JStr(m.timestamp)>>,
                  <<"value", JInt(m.value)>>,
                  <<"status", JStr(m.status)>> >>,
     val |-> JInt(0)]

\* the str payload as the bytes client.publish sends
EncodeUtf8(text) == [utf8 |-> TRUE, text |-> text]

(* ---------------- the consumer's handler ---------------- *)
\* msg.payload.decode("utf-8")
Decode(bytes) ==
    IF bytes.utf8 THEN [ok |-> TRUE, text |-> bytes.text]
    ELSE [ok |-> FALSE, text |-> bytes.text]

\* the dict json.loads builds from the members of an object: a later
\* member with the same name replaces an earlier one
RECURSIVE json_object(_)
json_object(pairs) ==
    IF pairs = << >> THEN [k \in {} |-> JInt(0)]
    ELSE LET n == Len(pairs)
             rest == json_object(SubSeq(pairs, 1, n - 1))
             last == pairs[n]
         IN [k \in (DOMAIN rest) \cup {last[1]} |->
                IF k = last[1] THEN last[2] ELSE rest[k]]

\* json.loads(payload_str): the Python value, or JSONDecodeError
json_loads(text) ==
    IF text.kind = "garbage"
        THEN [ok |-> FALSE, type |-> "none", dict |-> json_object(<< >>), val |-> JInt(0)]
    ELSE IF text.kind = "object"
        THEN [ok |-> TRUE, type |-> "dict", dict |-> json_object(text.pairs), val |-> JInt(0)]
    ELSE IF text.kind = "array"
        THEN [ok |-> TRUE, type |-> "list", dict |-> json_object(<< >>), val |-> JInt(0)]
    ELSE [ok |-> TRUE, type |-> text.val.t, dict |-> json_object(<< >>), val |-> text.val]

\* the statements of the try block that read the message, in order: the
\* key each one subscripts ("" for none) and the line it logs
FieldSteps ==
    << [key |-> "message_id", label |-> "Message ID"],
       [key |-> "timestamp", label |-> "Message timestamp"],
       [key |-> "", label |-> "Received at"],
       [key |-> "value", label |-> "Value"],
       [key |-> "status", label |-> "Status"] >>

\* message[key]: subscripting anything but a dict with a str raises
\* TypeError, a dict without the key raises KeyError(key)
Subscript(parsed, key) ==
    IF parsed.type # "dict" THEN [exc |-> "TypeError", key |-> ""]
    ELSE IF key \notin DOMAIN parsed.dict THEN [exc |-> "KeyError", key |-> key]
    ELSE [exc |-> "none", key |-> ""]

\* the logger.info lines from step i on, until one raises
RECURSIVE LogFields(_, _, _)
LogFields(parsed, i, acc) ==
    IF i > Len(FieldSteps) THEN [log |-> acc, exc |-> "none", key |-> ""]
    ELSE LET st == FieldSteps[i]
             got == IF st.key = "" THEN [exc |-> "none", key |-> ""]
                    ELSE Subscript(parsed, st.key)
         IN IF got.exc # "none" THEN [log |-> acc, exc |-> got.exc, key |-> got.key]
            ELSE LogFields(parsed, i + 1, Append(acc, Line("info", st.label, st.key)))

\* mutant: the alert is raised for every status that is not "green"
AlertLines_NotGreen(parsed) ==
    IF parsed.dict["status"] # JStr("green")
    THEN << Line("warning", "ALERT: Red status detected!", "") >>
    ELSE << >>

\* if message["status"] == "red": logger.warning("ALERT: ...")
AlertLines(parsed) ==
    IF parsed.dict["status"] = JStr("red")
    THEN << Line("warning", "ALERT: Red status detected!", "") >>
    ELSE << >>

\* the try block of on_message: the lines it logs and the exception that ends it
TryBlock(bytes) ==
    LET dec == Decode(bytes)
        parsed == json_loads(dec.text)
        body == LogFields(parsed, 1, << Line("info", "New Message Received", "") >>)
    IN IF ~dec.ok THEN [log |-> << >>, exc |-> "UnicodeDecodeError", key |-> ""]
       ELSE IF ~parsed.ok THEN [log |-> << >>, exc |-> "JSONDecodeError", key |-> ""]
       ELSE IF body.exc # "none" THEN body
       ELSE [log |-> body.log \o AlertLines(parsed), exc |-> "none", key |-> ""]

\* mutant: no `except Exception` clause, so other exceptions escape
ExceptClauses_NoCatchAll(exc, key) ==
    IF exc = "none" THEN [log |-> << >>, escaped |-> FALSE]
    ELSE IF exc = "JSONDecodeError"
        THEN [log |-> << Line("error", "Error decoding JSON message", ""),
                         Line("debug", "Raw message", "") >>,
              escaped |-> FALSE]
    ELSE IF exc = "KeyError"
        THEN [log |-> << Line("error", "Missing expected key in message", key),
                         Line("debug", "Message content", "") >>,
              escaped |-> FALSE]
    ELSE [log |-> << >>, escaped |-> TRUE]

\* mutant: no `except KeyError` clause, a missing key ends in the last clause
ExceptClauses_NoKeyError(exc, key) ==
    IF exc = "none" THEN [log |-> << >>, escaped |-> FALSE]
    ELSE IF exc = "JSONDecodeError"
        THEN [log |-> << Line("error", "Error decoding JSON message", ""),
                         Line("debug", "Raw message", "") >>,
              escaped |-> FALSE]
    ELSE [log |-> << Line("error", "Error processing message", ""),
                     Line("debug", "Raw message", "") >>,
          escaped |-> FALSE]

\* the except clauses of on_message, in order; the last one catches every
\* Exception, so nothing escapes
ExceptClauses(exc, key) ==
    IF exc = "none" THEN [log |-> << >>, escaped |-> FALSE]
    ELSE IF exc = "JSONDecodeError"
        THEN [log |-> << Line("error", "Error decoding JSON message", ""),
                         Line("debug", "Raw message", "") >>,
              escaped |-> FALSE]
    ELSE IF exc = "KeyError"
        THEN [log |-> << Line("error", "Missing expected key in message", key),
                         Line("debug", "Message content", "") >>,
              escaped |-> FALSE]
    ELSE [log |-> << Line("error", "Error processing message", ""),
                     Line("debug", "Raw message", "") >>,
          escaped |-> FALSE]

\* on_message(client, userdata, msg)
on_message(bytes) ==
    LET t == TryBlock(bytes)
        h == ExceptClauses(t.exc, t.key)
    IN [log |-> t.log \o h.log, escaped |-> h.escaped]


(* ---------------- inbound payloads explored ---------------- *)
RequiredKeys == {"message_id", "timestamp", "value", "status"}
KeyOrder == <<"message_id", "timestamp", "value", "status">>
\* values of the status member: the three the producer sends, a string
\* that differs from "red" only in case, and a number
StatusInputs == {JStr("green"), JStr("yellow"), JStr("red"), JStr("RED"), JInt(1)}

SampleValue(key, st) ==
    IF key = "message_id" THEN JInt(1)
    ELSE IF key = "timestamp" THEN JStr("2024-01-01 00:00:00")
    ELSE IF key = "value" THEN JInt(50)
    ELSE st

\* the members named in S, in the order of `order`, from position i on
RECURSIVE Members(_, _, _, _)
Members(S, st, order, i) ==
    IF i > Len(order) THEN << >>
    ELSE IF order[i] \in S
         THEN << <<order[i], SampleValue(order[i], st)>> >> \o Members(S, st, order, i + 1)
    ELSE Members(S, st, order, i + 1)

Reversed(seq) == [i \in 1..Len(seq) |-> seq[Len(seq) + 1 - i]]

Text(kind, pairs, val) == [kind |-> kind, pairs |-> pairs, val |-> val]

ObjectTexts ==
    { Text("object", Members(S, st, order, 1), JInt(0)) :
        S \in SUBSET RequiredKeys, st \in StatusInputs,
        order \in {KeyOrder, Reversed(KeyOrder)} }
    \cup
    \* a repeated member: the later one wins
    { Text("object",
           Members(RequiredKeys, JStr("green"), KeyOrder, 1) \o << <<"status", JStr("red")>> >>,
           JInt(0)),
      Text("object",
           Members(RequiredKeys, JStr("red"), KeyOrder, 1) \o << <<"status", JStr("green")>> >>,
           JInt(0)) }

OtherTexts ==
    { Text("garbage", << >>, JInt(0)),
      Text("array", << >>, JInt(0)),
      Text("scalar", << >>, JInt(7)),
      Text("scalar", << >>, JStr("red")),
      Text("scalar", << >>, [t |-> "null", n |-> 0, s |-> ""]) }

\* the bytes of an inbound message: valid UTF-8 of one of the texts, or not
\* valid UTF-8
Payloads ==
    { [utf8 |-> TRUE, text |-> t] : t \in ObjectTexts \cup OtherTexts }
    \cup { [utf8 |-> FALSE, text |-> Text("garbage", << >>, JInt(0))] }

NoPayload == [utf8 |-> TRUE, text |-> Text("none", << >>, JInt(0))]

(* ---------------- parse_arguments ---------------- *)
\* the options each parser knows (the certificate paths and --debug left out)
Flags(r) == IF r = "publisher" THEN {"--broker", "--port", "--topic", "--interval"}
            ELSE {"--broker", "--port", "--topic"}
AllFlags == Flags("publisher") \cup Flags("subscriber")

\* the attribute an option is stored in
DestOf(flag) ==
    IF flag = "--broker" THEN "broker"
    ELSE IF flag = "--port" THEN "port"
    ELSE IF flag = "--topic" THEN "topic"
    ELSE "interval"

\* mutant: the default port is the one of MQTT without TLS
Defaults_PlainPort(r) ==
    [d \in {DestOf(fl) : fl \in Flags(r)} |->
        IF d = "broker" THEN [t |-> "str", n |-> 0, s |-> DEFAULT_BROKER]
        ELSE IF d = "port" THEN [t |-> "int", n |-> 1883, s |-> ""]
        ELSE IF d = "topic" THEN [t |-> "str", n |-> 0, s |-> DEFAULT_TOPIC]
        ELSE [t |-> "int", n |-> DEFAULT_INTERVAL, s |-> ""]]

\* default= of each add_argument
Defaults(r) ==
    [d \in {DestOf(fl) : fl \in Flags(r)} |->
        IF d = "broker" THEN [t |-> "str", n |-> 0, s |-> DEFAULT_BROKER]
        ELSE IF d = "port" THEN [t |-> "int", n |-> DEFAULT_PORT, s |-> ""]
        ELSE IF d = "topic" THEN [t |-> "str", n |-> 0, s |-> DEFAULT_TOPIC]
        ELSE [t |-> "int", n |-> DEFAULT_INTERVAL, s |-> ""]]

\* the values on the command line explored, as the strings argv holds
NumberTokens == {"8883", "1883", "5"}
Tokens(flag) ==
    IF flag = "--broker" THEN {"test-broker"}
    ELSE IF flag = "--port" THEN {"8883", "1883", "abc"}
    ELSE IF flag = "--topic" THEN {"test/topic"}
    ELSE {"5", "abc"}

\* int(token) / float(token) of a token that is a number
NumberOf(token) ==
    IF token = "8883" THEN 8883 ELSE IF token = "1883" THEN 1883 ELSE 5

\* type= of each add_argument: int for --port, float for --interval, none
\* (the string itself) for the others; a token that is no number is an error
Convert(flag, token) ==
    IF flag \in {"--port", "--interval"}
    THEN IF token \in NumberTokens
         THEN [ok |-> TRUE, val |-> [t |-> "int", n |-> NumberOf(token), s |-> ""]]
         ELSE [ok |-> FALSE, val |-> [t |-> "int", n |-> 0, s |-> ""]]
    ELSE [ok |-> TRUE, val |-> [t |-> "str", n |-> 0, s |-> token]]

\* parser.parse_args(): the options from position i on are stored over the
\* namespace ns; an unknown option or a bad value ends in parser.error
RECURSIVE ParseFrom(_, _, _, _)
ParseFrom(r, av, i, ns) ==
    IF i > Len(av) THEN [ok |-> TRUE, ns |-> ns]
    ELSE LET flag == av[i][1]
             conv == Convert(flag, av[i][2])
         IN IF flag \notin Flags(r) \/ ~conv.ok THEN [ok |-> FALSE, ns |-> ns]
            ELSE ParseFrom(r, av, i + 1, [ns EXCEPT ![DestOf(flag)] = conv.val])

parse_arguments(r, av) == ParseFrom(r, av, 1, Defaults(r))

\* the command lines explored
Options == {<<fl, tok>> : fl \in AllFlags, tok \in {"test-broker", "8883", "1883", "abc", "test/topic", "5"}}
ValidOptions == {o \in Options : o[2] \in Tokens(o[1])}
RECURSIVE SeqsUpTo(_, _)
SeqsUpTo(S, n) ==
    IF n = 0 THEN {<< >>}
    ELSE LET shorter == SeqsUpTo(S, n - 1)
         IN shorter \cup {Append(q, x) : q \in shorter, x \in S}
ArgvInputs == SeqsUpTo(ValidOptions, MaxArgs)

\* the command line that gives topic t
ArgvForTopic(t) == IF t = DEFAULT_TOPIC THEN << >> ELSE << <<"--topic", t>> >>

\* the namespace before parse_arguments has run
NoArgs == [d \in {"broker"} |-> [t |-> "none", n |-> 0, s |-> ""]]

\* args = parse_arguments(): argparse exits with status 2 on an error
ParseArgs ==
    /\ pc = "parse_args"
    /\ LET r == parse_arguments(role, argv)
       IN IF r.ok
          THEN /\ args' = r.ns
               /\ topic' = r.ns["topic"].s
               /\ pc' = "check_certs"
               /\ UNCHANGED exitCode
          ELSE /\ pc' = "done"
               /\ exitCode' = 2
               /\ UNCHANGED <<args, topic>>
    /\ UNCHANGED <<role, files, argv, calls, logged, message_count, message, lastStatus,
                   sleeps, ioRunning, interruptAt, loopError, shutdownError, connState,
                   evCount, lastEvent, inbound, msgLog, msgCount>>

(* ---------------- main(): setup ---------------- *)
Init ==
    /\ role \in Roles
    /\ files \in [CertArgs -> FileStates]
    /\ topic \in Topics
    /\ argv = ArgvForTopic(topic)
    /\ args = parse_arguments(role, argv).ns
    /\ pc = "check_certs"
    /\ exitCode = -1
    /\ calls = << >>
    /\ logged = {}
    /\ message_count = 0
    /\ message = NoMessage
    /\ lastStatus = 0
    /\ sleeps = 0
    /\ ioRunning = FALSE
    /\ interruptAt = "none"
    /\ loopError = FALSE
    /\ shutdownError = "none"
    /\ connState = "Disconnected"
    /\ evCount = 0
    /\ lastEvent = Event("none", 0)
    /\ inbound = NoPayload
    /\ msgLog = << >>
    /\ msgCount = 0

pubVars == <<message_count, message, lastStatus, sleeps>>
subVars == <<inbound, msgLog, msgCount>>
envVars == <<role, files, topic, argv, args>>

\* if not check_cert_files(...): return 1
AfterCheck(ok) == IF ok THEN [pc |-> "tls_set", exit |-> -1] ELSE [pc |-> "done", exit |-> 1]

CheckCerts ==
    /\ pc = "check_certs"
    /\ LET r == check_cert_files(files)
           n == AfterCheck(r.ok)
       IN /\ pc' = n.pc
          /\ exitCode' = n.exit
          /\ logged' = logged \cup r.log
    /\ UNCHANGED <<envVars, calls, pubVars, ioRunning, interruptAt, loopError,
                   shutdownError, connState, evCount, lastEvent, subVars>>

\* mutant: the except clause of tls_set returns 0
AfterTlsSet_Return0(ok) == IF ok THEN [pc |-> "connect", exit |-> -1] ELSE [pc |-> "done", exit |-> 0]

\* try: client.tls_set(...) except Exception: log, return 1
AfterTlsSet(ok) == IF ok THEN [pc |-> "connect", exit |-> -1] ELSE [pc |-> "done", exit |-> 1]

TlsSet ==
    /\ pc = "tls_set"
    /\ calls' = Append(calls, PlainCall("tls_set"))
    /\ \E ok \in BOOLEAN :
         /\ pc' = AfterTlsSet(ok).pc
         /\ exitCode' = AfterTlsSet(ok).exit
         /\ logged' = IF ok THEN logged
                      ELSE logged \cup {Line("error", "Failed to set up TLS", "")}
    /\ UNCHANGED <<envVars, pubVars, ioRunning, interruptAt, loopError,
                   shutdownError, connState, evCount, lastEvent, subVars>>

\* mutant: the failure of connect is logged and main goes on
AfterConnect_GoOn(ok) == [pc |-> "start_loop", exit |-> -1]

\* try: client.connect(...) except Exception: log, return 1
AfterConnect(ok) == IF ok THEN [pc |-> "start_loop", exit |-> -1] ELSE [pc |-> "done", exit |-> 1]

Connect ==
    /\ pc = "connect"
    /\ calls' = Append(calls, PlainCall("connect"))
    /\ \E ok \in BOOLEAN :
         /\ pc' = AfterConnect(ok).pc
         /\ exitCode' = AfterConnect(ok).exit
         /\ logged' = IF ok THEN logged
                      ELSE logged \cup {Line("error", "Connection failed", "")}
         /\ connState' = IF ok THEN "Connecting" ELSE connState
    /\ UNCHANGED <<envVars, pubVars, ioRunning, interruptAt, loopError,
                   shutdownError, evCount, lastEvent, subVars>>

\* publisher: client.loop_start(), then the try block is entered
LoopStart ==
    /\ pc = "start_loop"
    /\ role = "publisher"
    /\ calls' = Append(calls, PlainCall("loop_start"))
    /\ ioRunning' = TRUE
    /\ pc' = "incr"
    /\ message_count' = 0
    /\ UNCHANGED <<envVars, exitCode, logged, message, lastStatus, sleeps, interruptAt,
                   loopError, shutdownError, connState, evCount, lastEvent, subVars>>

\* subscriber: client.loop_forever() inside the try block
LoopForever ==
    /\ pc = "start_loop"
    /\ role = "subscriber"
    /\ calls' = Append(calls, PlainCall("loop_forever"))
    /\ pc' = "loop_forever"
    /\ UNCHANGED <<envVars, exitCode, logged, pubVars, ioRunning, interruptAt,
                   loopError, shutdownError, connState, evCount, lastEvent, subVars>>


(* ---------------- shutdown: the finally block ---------------- *)
\* the first statement of the finally block: the publisher stops the
\* network thread first, the subscriber has none
ShutdownEntry(r) == IF r = "publisher" THEN "loop_stop" ELSE "disconnect"

\* the statements of `try:` inside the finally block, in order
ShutdownTry(r) == IF r = "publisher" THEN <<"loop_stop", "disconnect">>
                  ELSE <<"disconnect">>

\* where main goes when statement `stmt` of that try block returned
AfterShutdownStep(r, stmt) ==
    LET body == ShutdownTry(r)
        i == CHOOSE k \in 1..Len(body) : body[k] = stmt
    IN IF i < Len(body) THEN body[i + 1] ELSE "final_log"

\* mutant: the except clause raises again, the exception leaves main
ShutdownExcept_Reraise == [pc |-> "crashed", exit |-> 1]

\* except Exception as e: logger.error("Disconnect failed"); pass
\* where main goes when a statement of that try block raised: the except
\* clause ends the try block, and main goes on after it
ShutdownExcept == [pc |-> "final_log", exit |-> -1]

LoopStop ==
    /\ pc = "loop_stop"
    /\ calls' = Append(calls, PlainCall("loop_stop"))
    /\ \E ok \in BOOLEAN :
         IF ok
         THEN /\ pc' = AfterShutdownStep(role, "loop_stop")
              /\ ioRunning' = FALSE
              /\ UNCHANGED <<logged, shutdownError, exitCode>>
         ELSE /\ shutdownError' = "loop_stop"
              /\ logged' = logged \cup {Line("error", "Disconnect failed", "")}
              /\ pc' = ShutdownExcept.pc
              /\ exitCode' = ShutdownExcept.exit
              /\ UNCHANGED ioRunning
    /\ UNCHANGED <<envVars, pubVars, interruptAt, loopError, connState, evCount, lastEvent, subVars>>

Disconnect ==
    /\ pc = "disconnect"
    /\ calls' = Append(calls, PlainCall("disconnect"))
    /\ \E ok \in BOOLEAN :
         IF ok
         THEN /\ pc' = AfterShutdownStep(role, "disconnect")
              /\ UNCHANGED <<logged, shutdownError, exitCode>>
         ELSE /\ shutdownError' = "disconnect"
              /\ logged' = logged \cup {Line("error", "Disconnect failed", "")}
              /\ pc' = ShutdownExcept.pc
              /\ exitCode' = ShutdownExcept.exit
    /\ UNCHANGED <<envVars, pubVars, ioRunning, interruptAt, loopError, connState,
                   evCount, lastEvent, subVars>>

\* logger.info("Disconnected from broker"); return 0
FinalLog ==
    /\ pc = "final_log"
    /\ logged' = logged \cup {Line("info", "Disconnected from broker", "")}
    /\ pc' = "done"
    /\ exitCode' = 0
    /\ UNCHANGED <<envVars, calls, pubVars, ioRunning, interruptAt, loopError,
                   shutdownError, connState, evCount, lastEvent, subVars>>

(* ---------------- publisher: the producer loop ---------------- *)
\* mutant: the counter skips a number
NextCount_Skip(n) == n + 2

\* message_count += 1
NextCount(n) == n + 1

PubIncrement ==
    /\ pc = "incr"
    /\ message_count < MaxCycles
    /\ message_count' = NextCount(message_count)
    /\ pc' = "build"
    /\ UNCHANGED <<envVars, exitCode, calls, logged, message, lastStatus, sleeps,
                   ioRunning, interruptAt, loopError, shutdownError, connState,
                   evCount, lastEvent, subVars>>

\* mutant: the upper end is one too high
RandintSample_OffByOne(lo, hi) == {lo, lo + 1, hi, hi + 1}

\* results of random.randint(lo, hi) explored: the ends of the range and
\* their neighbours
RandintSample(lo, hi) == {lo, lo + 1, hi - 1, hi}

\* message = create_sample_message(message_count); payload = json.dumps(message)
PubBuild ==
    /\ pc = "build"
    /\ \E v \in RandintSample(ValueMin, ValueMax), s \in StatusChoices :
         message' = create_sample_message(message_count, "now", v, s)
    /\ pc' = "publish"
    /\ UNCHANGED <<envVars, exitCode, calls, logged, message_count, lastStatus, sleeps,
                   ioRunning, interruptAt, loopError, shutdownError, connState,
                   evCount, lastEvent, subVars>>

\* the message_id member of a payload json.dumps produced
PayloadId(bytes) == json_loads(Decode(bytes).text).dict["message_id"].n

\* the payload of this cycle
payload == EncodeUtf8(json_dumps(message))

\* mutant: a publish that failed locally is sent again
AfterPublish_Retry(st) == IF st = 0 THEN "sleep" ELSE "publish"

\* mutant: a publish that failed locally ends the loop
AfterPublish_Stop(st) == IF st = 0 THEN "sleep" ELSE "loop_stop"

\* mutant: a publish that failed locally starts the next cycle at once
AfterPublish_NoSleep(st) == IF st = 0 THEN "sleep" ELSE "incr"

\* the statement after the status check, whatever result[0] was
AfterPublish(st) == "sleep"

\* result = client.publish(args.topic, payload, qos=1) and the status check;
\* publish may also raise, which ends the loop in `except Exception`
PubPublish ==
    /\ pc = "publish"
    /\ calls' = Append(calls, Call("publish", topic, PayloadId(payload), QOS))
    /\ \/ \E st \in PublishStatuses :
            /\ lastStatus' = st
            /\ logged' = logged \cup
                 {IF st = 0 THEN Line("info", "Sent message", "")
                  ELSE Line("error", "Failed to send message with status", "")}
            /\ pc' = AfterPublish(st)
            /\ UNCHANGED loopError
       \/ /\ loopError' = TRUE
          /\ logged' = logged \cup {Line("error", "Error", "")}
          /\ pc' = ShutdownEntry(role)
          /\ UNCHANGED lastStatus
    /\ UNCHANGED <<envVars, exitCode, message_count, message, sleeps, ioRunning,
                   interruptAt, shutdownError, connState, evCount, lastEvent, subVars>>

\* time.sleep(args.interval): returns, or raises (a negative interval)
PubSleep ==
    /\ pc = "sleep"
    /\ \/ /\ sleeps' = sleeps + 1
          /\ pc' = "incr"
          /\ UNCHANGED <<loopError, logged>>
       \/ /\ loopError' = TRUE
          /\ logged' = logged \cup {Line("error", "Error", "")}
          /\ pc' = ShutdownEntry(role)
          /\ UNCHANGED sleeps
    /\ UNCHANGED <<envVars, exitCode, calls, message_count, message, lastStatus,
                   ioRunning, interruptAt, shutdownError, connState, evCount, lastEvent, subVars>>

\* the statements of the try block, where KeyboardInterrupt is caught
RunningPcs(r) == IF r = "publisher" THEN {"incr", "build", "publish", "sleep"}
                 ELSE {"loop_forever"}

\* except KeyboardInterrupt: logger.info("... terminated by user")
Interrupt ==
    /\ pc \in RunningPcs(role)
    /\ interruptAt' = pc
    /\ logged' = logged \cup {Line("info", "terminated by user", "")}
    /\ pc' = ShutdownEntry(role)
    /\ UNCHANGED <<envVars, exitCode, calls, pubVars, ioRunning, loopError,
                   shutdownError, connState, evCount, lastEvent, subVars>>


(* ---------------- callbacks ---------------- *)
\* mutant: every disconnect is taken for an expected one
StateOnDisconnect_Expected(rc) == "Disconnected"

\* the session state a connection callback reports
StateOnConnect(rc) == IF rc = 0 THEN "Connected" ELSE "Failed"
StateOnDisconnect(rc) == IF rc = 0 THEN "Disconnected" ELSE "Failed"

\* on_disconnect of both roles: one log line
on_disconnect(rc) ==
    IF rc = 0 THEN {Line("info", "Disconnected successfully", "")}
    ELSE {Line("warning", "Unexpected disconnection", "")}

\* publisher on_connect: one log line
pub_on_connect(rc) ==
    IF rc = 0 THEN [calls |-> << >>, log |-> {Line("info", "Connected to MQTT Broker", "")}]
    ELSE [calls |-> << >>, log |-> {Line("error", "Failed to connect", "")}]

\* mutant: subscribes whatever the reason code
sub_on_connect_Always(rc, t) ==
    [calls |-> << Call("subscribe", t, 0, QOS) >>,
     log |-> {Line("info", "Connected to MQTT Broker", ""),
              Line("info", "Subscribed to topic", "")}]

\* subscriber on_connect: subscribes when the connection succeeded
sub_on_connect(rc, t) ==
    IF rc = 0
    THEN [calls |-> << Call("subscribe", t, 0, QOS) >>,
          log |-> {Line("info", "Connected to MQTT Broker", ""),
                   Line("info", "Subscribed to topic", "")}]
    ELSE [calls |-> << >>, log |-> {Line("error", "Failed to connect", "")}]

\* on_subscribe: a warning for each reason code that is not 0
on_subscribe(rcs) ==
    {Line("debug", "Subscribed with message ID", "")}
    \cup {Line("warning", "Failed to subscribe to topic", "") :
            i \in {k \in 1..Len(rcs) : rcs[k] # 0}}

\* the publisher's callbacks run on the thread loop_start started
PubCallbackEnabled ==
    /\ role = "publisher"
    /\ ioRunning
    /\ pc \notin {"done", "crashed"}
    /\ evCount < MaxEvents

PubOnConnect ==
    /\ PubCallbackEnabled
    /\ \E rc \in ReasonCodes :
         /\ logged' = logged \cup pub_on_connect(rc).log
         /\ calls' = calls \o pub_on_connect(rc).calls
         /\ connState' = StateOnConnect(rc)
         /\ lastEvent' = Event("on_connect", rc)
    /\ evCount' = evCount + 1
    /\ UNCHANGED <<envVars, pc, exitCode, pubVars, ioRunning, interruptAt, loopError,
                   shutdownError, subVars>>

\* mutant: on_publish stores the message id it was handed in the counter
PubOnPublish_WritesCounter ==
    /\ PubCallbackEnabled
    /\ logged' = logged \cup {Line("debug", "Message published successfully", "")}
    /\ evCount' = evCount + 1
    /\ lastEvent' = Event("on_publish", 0)
    /\ message_count' = IF message_count > 0 THEN message_count - 1 ELSE 0
    /\ UNCHANGED <<envVars, pc, exitCode, calls, message, lastStatus, sleeps, ioRunning,
                   interruptAt, loopError, shutdownError, connState, subVars>>

PubOnPublish ==
    /\ PubCallbackEnabled
    /\ logged' = logged \cup {Line("debug", "Message published successfully", "")}
    /\ evCount' = evCount + 1
    /\ lastEvent' = Event("on_publish", 0)
    /\ UNCHANGED <<envVars, pc, exitCode, calls, pubVars, ioRunning, interruptAt,
                   loopError, shutdownError, connState, subVars>>

PubOnDisconnect ==
    /\ PubCallbackEnabled
    /\ \E rc \in ReasonCodes :
         /\ logged' = logged \cup on_disconnect(rc)
         /\ connState' = StateOnDisconnect(rc)
         /\ lastEvent' = Event("on_disconnect", rc)
    /\ evCount' = evCount + 1
    /\ UNCHANGED <<envVars, pc, exitCode, calls, pubVars, ioRunning, interruptAt,
                   loopError, shutdownError, subVars>>

\* the subscriber's callbacks run inside loop_forever
SubCallbackEnabled ==
    /\ role = "subscriber"
    /\ pc = "loop_forever"
    /\ evCount < MaxEvents

SubOnConnect ==
    /\ SubCallbackEnabled
    /\ \E rc \in ReasonCodes :
         /\ logged' = logged \cup sub_on_connect(rc, topic).log
         /\ calls' = calls \o sub_on_connect(rc, topic).calls
         /\ connState' = StateOnConnect(rc)
         /\ lastEvent' = Event("on_connect", rc)
    /\ evCount' = evCount + 1
    /\ UNCHANGED <<envVars, pc, exitCode, pubVars, ioRunning, interruptAt, loopError,
                   shutdownError, subVars>>

SubOnSubscribe ==
    /\ SubCallbackEnabled
    /\ \E rcs \in {<< >>, <<0>>, <<128>>} :
         logged' = logged \cup on_subscribe(rcs)
    /\ evCount' = evCount + 1
    /\ lastEvent' = Event("on_subscribe", 0)
    /\ UNCHANGED <<envVars, pc, exitCode, calls, pubVars, ioRunning, interruptAt,
                   loopError, shutdownError, connState, subVars>>

SubOnDisconnect ==
    /\ SubCallbackEnabled
    /\ \E rc \in ReasonCodes :
         /\ logged' = logged \cup on_disconnect(rc)
         /\ connState' = StateOnDisconnect(rc)
         /\ lastEvent' = Event("on_disconnect", rc)
    /\ evCount' = evCount + 1
    /\ UNCHANGED <<envVars, pc, exitCode, calls, pubVars, ioRunning, interruptAt,
                   loopError, shutdownError, subVars>>

\* an inbound message: on_message runs; an exception it let escape would
\* leave loop_forever and reach `except Exception` of main
SubOnMessage ==
    /\ SubCallbackEnabled
    /\ \E bytes \in Payloads :
         LET r == on_message(bytes)
         IN /\ inbound' = bytes
            /\ msgLog' = r.log
            /\ IF r.escaped
               THEN /\ loopError' = TRUE
                    /\ logged' = logged \cup {Line("error", "Error", "")}
                    /\ pc' = ShutdownEntry(role)
                    /\ UNCHANGED msgCount
               ELSE /\ msgCount' = msgCount + 1
                    /\ UNCHANGED <<loopError, logged, pc>>
    /\ evCount' = evCount + 1
    /\ lastEvent' = Event("on_message", 0)
    /\ UNCHANGED <<envVars, exitCode, calls, pubVars, ioRunning, interruptAt,
                   shutdownError, connState>>

\* loop_forever raises (a socket error): `except Exception` of main
SubLoopError ==
    /\ role = "subscriber"
    /\ pc = "loop_forever"
    /\ loopError' = TRUE
    /\ logged' = logged \cup {Line("error", "Error", "")}
    /\ pc' = ShutdownEntry(role)
    /\ UNCHANGED <<envVars, exitCode, calls, pubVars, ioRunning, interruptAt,
                   shutdownError, connState, evCount, lastEvent, subVars>>

(* ---------------- specification ---------------- *)
Next ==
    \/ CheckCerts
    \/ TlsSet
    \/ Connect
    \/ LoopStart
    \/ LoopForever
    \/ PubIncrement
    \/ PubBuild
    \/ PubPublish
    \/ PubSleep
    \/ Interrupt
    \/ LoopStop
    \/ Disconnect
    \/ FinalLog
    \/ PubOnConnect
    \/ PubOnPublish
    \/ PubOnDisconnect
    \/ SubOnConnect
    \/ SubOnSubscribe
    \/ SubOnDisconnect
    \/ SubOnMessage
    \/ SubLoopError

Spec == Init /\ [][Next]_vars

\* parse_arguments alone, on every command line explored
InitArgs ==
    /\ role \in Roles
    /\ argv \in ArgvInputs
    /\ args = NoArgs
    /\ files = [a \in CertArgs |-> "readable"]
    /\ topic = DEFAULT_TOPIC
    /\ pc = "parse_args"
    /\ exitCode = -1
    /\ calls = << >>
    /\ logged = {}
    /\ message_count = 0
    /\ message = NoMessage
    /\ lastStatus = 0
    /\ sleeps = 0
    /\ ioRunning = FALSE
    /\ interruptAt = "none"
    /\ loopError = FALSE
    /\ shutdownError = "none"
    /\ connState = "Disconnected"
    /\ evCount = 0
    /\ lastEvent = Event("none", 0)
    /\ inbound = NoPayload
    /\ msgLog = << >>
    /\ msgCount = 0

NextArgs == ParseArgs

SpecArgs == InitArgs /\ [][NextArgs]_vars


(* ---------------- properties ---------------- *)
OpIndices(op) == {i \in DOMAIN calls : calls[i].op = op}
Called(op) == OpIndices(op) # {}
CountOp(op) == Cardinality(OpIndices(op))
HasLine(log, level, msg) == \E l \in log : l.level = level /\ l.msg = msg
SeqLines(q) == {q[i] : i \in DOMAIN q}
\* connect returned without raising: main went on to start the loop
ConnectSucceeded == Called("loop_start") \/ Called("loop_forever")

\* some credential path is not an existing regular file, or is not readable
BadCredentials == \E a \in CertArgs : files[a] # "readable"

\* C1: with a credential path that is missing, not a regular file or not
\* readable, check_cert_files fails, main returns 1 and no call is ever made
\* on the MQTT client; the log names a path that is at fault
C1_BadCredentialsNoNetwork ==
    BadCredentials =>
        /\ ~check_cert_files(files).ok
        /\ calls = << >>
        /\ pc \in {"check_certs", "done"}
        /\ pc = "done" =>
             /\ exitCode = 1
             /\ \E l \in logged :
                  /\ l.level = "error"
                  /\ l.arg \in CertArgs
                  /\ files[l.arg] # "readable"
                  /\ l.msg = "Certificate file not found" <=> ~IsFile(files[l.arg])

C1_Witness ==
    /\ pc = "done"
    /\ files["ca_cert"] = "readable"
    /\ files["client_cert"] = "readable"
    /\ files["client_key"] = "unreadable"
    /\ exitCode = 1

\* C2: whenever main has returned after connect succeeded, client.disconnect
\* was called
C2_DisconnectAlwaysAttempted ==
    (pc = "done" /\ ConnectSucceeded) => Called("disconnect")

\* C3: publisher interrupted during time.sleep: no publish follows (every
\* started cycle has published once), loop_stop is called before disconnect,
\* disconnect is called exactly once, and main returns 0
C3_InterruptInSleep ==
    (role = "publisher" /\ interruptAt = "sleep" /\ pc = "done") =>
        /\ CountOp("publish") = message_count
        /\ calls[Len(calls)].op = "disconnect"
        /\ CountOp("disconnect") = 1
        /\ \A i \in OpIndices("loop_stop") : \A j \in OpIndices("disconnect") : i < j
        /\ Called("loop_stop")
        /\ exitCode = 0

\* C4: when loop_stop or disconnect raised, the error is logged, no exception
\* leaves main, the final line is logged and main returns 0, as it does
\* when disconnect succeeded
C4_ShutdownFailureContained ==
    /\ pc # "crashed"
    /\ shutdownError # "none" =>
         /\ pc \in {"final_log", "done"}
         /\ HasLine(logged, "error", "Disconnect failed")
    /\ (pc = "done" /\ ConnectSucceeded) =>
         /\ exitCode = 0
         /\ HasLine(logged, "info", "Disconnected from broker")

C4_Witness ==
    /\ pc = "done"
    /\ role = "subscriber"
    /\ shutdownError = "disconnect"
    /\ exitCode = 0

\* the publish calls, in order
Published == SelectSeq(calls, LAMBDA c : c.op = "publish")

\* C5: the message ids passed to publish are 1, 2, 3, ... in this order,
\* whatever status the earlier publish calls returned
C5_MessageIdsSequential ==
    /\ \A i \in DOMAIN Published : Published[i].id = i
    /\ pc \in {"sleep", "incr"} => Len(Published) = message_count

C5_Witness ==
    /\ Len(Published) = MaxCycles
    /\ HasLine(logged, "error", "Failed to send message with status")
    /\ HasLine(logged, "info", "Sent message")

\* the names of the members of an object text
MemberNames(text) == {text.pairs[i][1] : i \in DOMAIN text.pairs}
IsRecord(bytes) == bytes.utf8 /\ bytes.text.kind = "object"
\* a record that lacks a required field
LacksField(bytes) == IsRecord(bytes) /\ ~(RequiredKeys \subseteq MemberNames(bytes.text))
\* not UTF-8, not JSON, not an object, or an object that lacks a field
Rejected(bytes) == ~IsRecord(bytes) \/ LacksField(bytes)

\* this step is the delivery of callback `name`
Delivers(name) == evCount' = evCount + 1 /\ lastEvent'.name = name

\* C6: on_message returns normally on every payload: the receive loop goes
\* on, no call is made on the client and the session state is unchanged; for
\* a rejected payload an error is logged
C6_OnMessageNeverEscapes ==
    [][Delivers("on_message") =>
         /\ pc' = "loop_forever"
         /\ loopError' = loopError
         /\ msgCount' = msgCount + 1
         /\ calls' = calls
         /\ connState' = connState
         /\ exitCode' = -1
         /\ Rejected(inbound') => \E i \in DOMAIN msgLog' : msgLog'[i].level = "error"
      ]_vars

C6_Witness ==
    /\ msgCount = 2
    /\ ~inbound.utf8
    /\ pc = "loop_forever"
    /\ HasLine(SeqLines(msgLog), "error", "Error processing message")

\* C7: for a record that lacks a required field exactly one "Missing
\* expected key" error is logged, it names a field the record lacks, no
\* alert is logged and the receive loop goes on
C7_MissingFieldNamed ==
    [][(Delivers("on_message") /\ LacksField(inbound')) =>
         LET errs == {i \in DOMAIN msgLog' : msgLog'[i].level = "error"}
         IN /\ Cardinality(errs) = 1
            /\ \A i \in errs :
                 /\ msgLog'[i].msg = "Missing expected key in message"
                 /\ msgLog'[i].arg \in RequiredKeys \ MemberNames(inbound'.text)
            /\ ~HasLine(SeqLines(msgLog'), "warning", "ALERT: Red status detected!")
            /\ pc' = "loop_forever"
            /\ msgCount' = msgCount + 1
      ]_vars

C7_Witness ==
    /\ msgCount > 0
    /\ IsRecord(inbound)
    /\ MemberNames(inbound.text) = RequiredKeys \ {"status"}
    /\ Line("error", "Missing expected key in message", "status") \in SeqLines(msgLog)

\* the value of the last member named key
LastMember(text, key) ==
    LET is == {i \in DOMAIN text.pairs : text.pairs[i][1] = key}
        last == CHOOSE i \in is : \A j \in is : j <= i
    IN text.pairs[last][2]

\* decodes, parses, has the four required fields and status "red"
FullRedRecord(bytes) ==
    /\ IsRecord(bytes)
    /\ RequiredKeys \subseteq MemberNames(bytes.text)
    /\ LastMember(bytes.text, "status") = JStr("red")

AlertLine == Line("warning", "ALERT: Red status detected!", "")

\* C8: the ALERT line is logged for a payload exactly when it decodes,
\* parses, has the four required fields and status "red"; it is then the
\* last line, after the lines of the four fields
C8_AlertIffRed ==
    msgCount > 0 =>
        /\ AlertLine \in SeqLines(msgLog) <=> FullRedRecord(inbound)
        /\ AlertLine \in SeqLines(msgLog) =>
             /\ msgLog[Len(msgLog)] = AlertLine
             /\ Cardinality({i \in DOMAIN msgLog : msgLog[i] = AlertLine}) = 1
             /\ \A k \in RequiredKeys :
                  \E i \in 1..(Len(msgLog) - 1) :
                      msgLog[i].level = "info" /\ msgLog[i].arg = k

C8_Witness ==
    /\ msgCount > 0
    /\ FullRedRecord(inbound)
    /\ msgLog[Len(msgLog)] = AlertLine
    /\ Len(msgLog) = 7

\* C9: in the subscriber on_connect with reason code 0 makes exactly one
\* subscribe call, for args.topic with qos 1; on_connect with another code
\* makes none; and no other step makes a subscribe call
C9_SubscribeOnConnectOnly ==
    [][/\ (role = "subscriber" /\ Delivers("on_connect") /\ lastEvent'.rc = 0) =>
            calls' = Append(calls, Call("subscribe", topic, 0, QOS))
       /\ (Delivers("on_connect") /\ lastEvent'.rc # 0) => calls' = calls
       /\ (\E i \in DOMAIN calls' : i > Len(calls) /\ calls'[i].op = "subscribe") =>
            (role = "subscriber" /\ Delivers("on_connect") /\ lastEvent'.rc = 0)
      ]_vars

C9_Witness ==
    /\ role = "subscriber"
    /\ CountOp("subscribe") = 2
    /\ HasLine(logged, "error", "Failed to connect")
    /\ topic = "test/topic"

\* C10: the calls of the setup are made in the order tls_set, connect,
\* loop_start / loop_forever, each only after the one before succeeded; after
\* a failure of tls_set or connect no further call is made and main returns 1
C10_SetupInOrder ==
    /\ \A i \in DOMAIN calls :
         /\ calls[i].op = "tls_set" => (i = 1 /\ ~BadCredentials)
         /\ calls[i].op = "connect" => (i = 2 /\ calls[1].op = "tls_set")
         /\ calls[i].op \in {"loop_start", "loop_forever"} =>
              (i = 3 /\ calls[2].op = "connect")
         /\ calls[i].op \in {"publish", "subscribe"} =>
              (i > 3 /\ calls[3].op \in {"loop_start", "loop_forever"})
    /\ HasLine(logged, "error", "Failed to set up TLS") =>
         (Len(calls) = 1 /\ pc = "done" /\ exitCode = 1)
    /\ HasLine(logged, "error", "Connection failed") =>
         (Len(calls) = 2 /\ pc = "done" /\ exitCode = 1)
    /\ (pc = "done" /\ exitCode = 1) =>
         \/ BadCredentials
         \/ HasLine(logged, "error", "Failed to set up TLS")
         \/ HasLine(logged, "error", "Connection failed")

C10_Witness ==
    /\ pc = "done"
    /\ HasLine(logged, "error", "Connection failed")
    /\ Len(calls) = 2
    /\ exitCode = 1


\* a setup stage failed: a credential file, tls_set or connect
SetupFailed ==
    \/ BadCredentials
    \/ HasLine(logged, "error", "Failed to set up TLS")
    \/ HasLine(logged, "error", "Connection failed")

ShutdownPcs == {"loop_stop", "disconnect", "final_log", "done"}

NoIdTwice == \A i, j \in DOMAIN Published : Published[i].id = Published[j].id => i = j

\* C12: connect is called at most once in a run, also after a failed
\* connection acknowledgment or an unexpected disconnect, and no message id
\* is passed to publish twice, also after a publish that failed locally
C12_NoRetry ==
    /\ CountOp("connect") <= 1
    /\ NoIdTwice
    /\ CountOp("tls_set") <= 1

C12_Witness ==
    /\ role = "publisher"
    /\ HasLine(logged, "error", "Failed to send message with status")
    /\ HasLine(logged, "error", "Failed to connect")
    /\ HasLine(logged, "warning", "Unexpected disconnection")
    /\ Len(Published) = MaxCycles
    /\ lastStatus # 0

\* C13: a publish that returns a status other than 0 is logged and followed
\* by the sleep of the cycle; a callback (failed connect, unexpected
\* disconnect, rejected subscription, ...) leaves main where it is; main
\* leaves the running phase only by an interrupt or an exception of the
\* loop body
C13_RuntimeEventsNeverStop ==
    [][/\ (pc = "publish" /\ Len(calls') > Len(calls) /\ ~loopError' /\ interruptAt' = interruptAt
             /\ lastStatus' # 0) =>
            /\ pc' = "sleep"
            /\ HasLine(logged', "error", "Failed to send message with status")
       /\ (evCount' = evCount + 1) =>
            /\ pc' = pc
            /\ exitCode' = exitCode
            /\ lastEvent'.name # "on_message" => logged' # {}
       /\ (Delivers("on_connect") /\ lastEvent'.rc # 0) =>
            HasLine(logged', "error", "Failed to connect")
       /\ (Delivers("on_disconnect") /\ lastEvent'.rc # 0) =>
            HasLine(logged', "warning", "Unexpected disconnection")
       /\ (pc \in RunningPcs(role) /\ pc' \notin RunningPcs(role)) =>
            \/ interruptAt' # interruptAt
            \/ (loopError' /\ ~loopError)
      ]_vars

C13_Witness ==
    /\ role = "publisher"
    /\ pc = "sleep"
    /\ message_count = 2
    /\ HasLine(logged, "error", "Failed to send message with status")
    /\ HasLine(logged, "warning", "Unexpected disconnection")
    /\ lastEvent = Event("on_connect", 5)


Built == message # NoMessage

\* the record a parsed dict stands for
AsMessage(d) ==
    [message_id |-> d["message_id"].n, timestamp |-> d["timestamp"].s,
     value |-> d["value"].n, status |-> d["status"].s]

\* C15: the payload of every message the producer builds decodes and
\* parses back to a dict with exactly the four keys and the values of the
\* message, and on_message accepts it: it logs the four fields and no error
C15_RoundTrip ==
    Built =>
        LET dec == Decode(payload)
            back == json_loads(dec.text)
            got == on_message(payload)
        IN /\ dec.ok
           /\ back.ok
           /\ back.type = "dict"
           /\ DOMAIN back.dict = RequiredKeys
           /\ back.dict["message_id"].t = "int"
           /\ back.dict["value"].t = "int"
           /\ back.dict["timestamp"].t = "str"
           /\ back.dict["status"].t = "str"
           /\ AsMessage(back.dict) = message
           /\ ~got.escaped
           /\ \A i \in DOMAIN got.log : got.log[i].level # "error"
           /\ \A k \in RequiredKeys : \E i \in DOMAIN got.log : got.log[i].arg = k
           /\ ~Rejected(payload)

C15_Witness ==
    /\ pc = "sleep"
    /\ message_count = 2
    /\ message.status = "red"
    /\ message.value = ValueMax
    /\ Published[2].id = message.message_id

\* C16: every message built has an integer value from 0 to 100 and a
\* status among green, yellow, red
C16_ValueAndStatusRange ==
    Built =>
        /\ message.value \in Int
        /\ 0 <= message.value
        /\ message.value <= 100
        /\ message.status \in {"green", "yellow", "red"}

C16_Witness ==
    /\ pc = "publish"
    /\ message_count = MaxCycles
    /\ message.value = 0
    /\ message.status = "yellow"


\* parse_arguments has returned a namespace
Parsed == pc = "check_certs" /\ args # NoArgs

GivenAt(flag) == {i \in DOMAIN argv : argv[i][1] = flag}
\* the value given last for an option on the command line
LastGiven(flag) == argv[CHOOSE i \in GivenAt(flag) : \A j \in GivenAt(flag) : j <= i][2]

\* the attribute of the namespace holds the string given for the option, or
\* the documented default when the option is not given
StringOption(flag, attr, default) ==
    /\ attr \in DOMAIN args
    /\ args[attr].t = "str"
    /\ args[attr].s = IF GivenAt(flag) = {} THEN default ELSE LastGiven(flag)

\* the same for an option that holds a number
NumberOption(flag, attr, default) ==
    /\ attr \in DOMAIN args
    /\ args[attr].t = "int"
    /\ args[attr].n = IF GivenAt(flag) = {} THEN default ELSE NumberOf(LastGiven(flag))

\* C17: the namespace parse_arguments returns holds, for --broker, --port,
\* --topic (and --interval in the publisher), the value given on the command
\* line, and for an option not given its default: localhost, 8883,
\* kobayashi/signals/test, 10
C17_ArgumentsAndDefaults ==
    Parsed =>
        /\ StringOption("--broker", "broker", "localhost")
        /\ NumberOption("--port", "port", 8883)
        /\ StringOption("--topic", "topic", "kobayashi/signals/test")
        /\ role = "publisher" => NumberOption("--interval", "interval", 10)
        /\ role = "subscriber" => DOMAIN args = {"broker", "port", "topic"}
        /\ topic = args["topic"].s

C17_Witness ==
    /\ Parsed
    /\ role = "subscriber"
    /\ argv = << <<"--broker", "test-broker">>, <<"--topic", "test/topic">> >>
    /\ args["broker"].s = "test-broker"
    /\ args["topic"].s = "test/topic"
    /\ args["port"].n = 8883


\* the lines that carry a field of the message
ContentLines(log) ==
    {i \in DOMAIN log : log[i].level = "info" /\ log[i].arg \in RequiredKeys}

\* C18: lines with the contents of a message are logged only for a payload
\* that decodes, parses and has the four required fields; a record that
\* lacks a field gives the missing-key error and no such line
C18_ValidationBeforeContents ==
    msgCount > 0 =>
        /\ ContentLines(msgLog) # {} => ~Rejected(inbound)
        /\ LacksField(inbound) =>
             /\ ContentLines(msgLog) = {}
             /\ \E i \in DOMAIN msgLog : msgLog[i].msg = "Missing expected key in message"

\* C19: in the publisher the delivery of a callback leaves the counter, the
\* message, the position of main and the calls made as they are, so the
\* ids published are those of a run without callbacks
C19_CallbacksLeaveCounter ==
    [][(role = "publisher" /\ evCount' = evCount + 1) =>
         /\ message_count' = message_count
         /\ message' = message
         /\ pc' = pc
         /\ calls' = calls
         /\ sleeps' = sleeps
         /\ lastStatus' = lastStatus
         /\ \A i \in DOMAIN Published : Published[i].id = i
      ]_vars

C19_Witness ==
    /\ role = "publisher"
    /\ pc = "publish"
    /\ message_count = 2
    /\ evCount = MaxEvents
    /\ lastEvent.name = "on_publish"
    /\ Len(Published) = 1

\* C20: every cycle makes one publish call and then one sleep: the
\* completed sleeps and the publish calls alternate, starting with a publish,
\* whatever status a publish returned
C20_FixedDelay ==
    role = "publisher" =>
        /\ sleeps <= Len(Published)
        /\ Len(Published) <= sleeps + 1
        /\ Len(Published) <= message_count
        /\ pc = "incr" => (Len(Published) = message_count /\ sleeps = message_count)
        /\ pc \in {"build", "publish"} =>
             (Len(Published) = message_count - 1 /\ sleeps = message_count - 1)
        /\ pc = "sleep" => (Len(Published) = message_count /\ sleeps = message_count - 1)

C20_Witness ==
    /\ role = "publisher"
    /\ pc = "publish"
    /\ message_count = MaxCycles
    /\ sleeps = MaxCycles - 1
    /\ HasLine(logged, "error", "Failed to send message with status")

====
